---- MODULE Spec2Model ----
(***************************************************************************)
(* Model of pytorch_lightning/plugins/training_type/full_sharded.py:       *)
(* FullShardedPlugin (construction, configure_ddp, lightning_module,       *)
(* model_to_device, on_save, collate_state_dict) and                       *)
(* LightningFullyShardedDataParallel._post_reduction_hook.                 *)
(*                                                                         *)
(* Python values are represented as follows: bool -> BOOLEAN,              *)
(* Optional[bool] -> "None" | "False" | "True", torch.dtype -> a string,   *)
(* str keys -> sequences of one-character strings, dict -> sequence of     *)
(* <<key, value>> pairs in insertion order with distinct keys.             *)
(***************************************************************************)
EXTENDS Integers, Sequences, FiniteSets, TLC

(* ------------------------------ bounds --------------------------------- *)
\* largest number of parameters of the user's LightningModule
MaxKeys == 2
\* largest number of _post_reduction_hook invocations explored
MaxHookCalls == 2

VARIABLES
    (* import-time flags of pytorch_lightning.utilities *)
    fairscale_available,       \* _FAIRSCALE_AVAILABLE
    full_sharded_available,    \* _FAIRSCALE_FULL_SHARDED_AVAILABLE
    (* FullShardedPlugin object and its surroundings *)
    phase,           \* "start" | "import_failed" | "loaded" | "constructed" | "ctor_failed"
    error,           \* the exception raised by the last operation, "none" otherwise
    last_op,         \* name of the last operation that ran
    ctor_args,       \* <<>>, or <<the bound arguments of the __init__ call>>
    no_args,         \* TRUE iff __init__ was called without any argument
    parent_args,     \* <<>>, or <<the arguments DDPPlugin.__init__ received>>
    config,          \* the attributes __init__ has set on self
    precision,       \* trainer.precision
    base_state_dict, \* state_dict() of the user's LightningModule
    model,           \* self.model: wrapper layers, outermost first, around the LightningModule
    fsdp_kwargs,     \* <<>>, or <<keyword arguments of the latest FullyShardedDataParallel(...)>>
    optimizer_setups,\* number of trainer.accelerator.setup_optimizers(trainer) calls
    model_device,    \* where the parent's model_to_device has put the model
    checkpoint,      \* the checkpoint dict returned by the last on_save
    ret,             \* the state dict returned by the last collate_state_dict
    (* LightningFullyShardedDataParallel instance, one parameter *)
    training_state,  \* self.training_state
    stream_ok,       \* torch.cuda.current_stream() == self._streams["post_backward"]
    mixed_precision, \* self.mixed_precision
    move_grads_to_cpu,\* self.move_grads_to_cpu
    param_dtype,     \* param.data.dtype
    param_grad,      \* <<>> for param.grad is None, else <<param.grad.data>>
    reduced_in,      \* the reduced_grad argument of the last hook call
    hook_result,     \* "none" | "done" | "AssertionError"
    hook_calls,      \* number of hook invocations
    (* repeated application of the key rewrite of collate_state_dict *)
    cs_in, cs_once, cs_twice, cs_pc

pluginVars == <<fairscale_available, full_sharded_available, phase, error, last_op,
                ctor_args, no_args, parent_args, config, precision, base_state_dict,
                model, fsdp_kwargs, optimizer_setups, model_device, checkpoint, ret>>
hookVars == <<training_state, stream_ok, mixed_precision, move_grads_to_cpu,
              param_dtype, param_grad, reduced_in, hook_result, hook_calls>>
collateVars == <<cs_in, cs_once, cs_twice, cs_pc>>
vars == <<pluginVars, hookVars, collateVars>>

(* ------------------------------ strings -------------------------------- *)
\* the literal 'module.' of line 174
ModulePrefix == <<"m", "o", "d", "u", "l", "e", ".">>

\* indices at which sep occurs in s
Occurrences(s, sep) ==
    {i \in 1..(Len(s) - Len(sep) + 1) : SubSeq(s, i, i + Len(sep) - 1) = sep}

Min(S) == CHOOSE x \in S : \A y \in S : x <= y

Max(S) == CHOOSE x \in S : \A y \in S : x >= y

\* str.partition(sep): split at the first occurrence; (s, '', '') when absent
Partition(s, sep) ==
    IF Occurrences(s, sep) = {}
    THEN <<s, <<>>, <<>>>>
    ELSE LET i == Min(Occurrences(s, sep))
         IN  <<SubSeq(s, 1, i - 1), sep, SubSeq(s, i + Len(sep), Len(s))>>

(* ------------------------------- dicts --------------------------------- *)
Keys(d) == {d[i][1] : i \in 1..Len(d)}

Items(d) == {d[i] : i \in 1..Len(d)}

\* d[k] = v on an insertion-ordered dict: overwrite in place, else append
DictSet(d, k, v) ==
    IF k \in Keys(d)
    THEN [i \in 1..Len(d) |-> IF d[i][1] = k THEN <<k, v>> ELSE d[i]]
    ELSE Append(d, <<k, v>>)


(* ------------------------- checkpoint key rewrite ---------------------- *)
\* k.rpartition('module.')[2]: splits at the last occurrence instead
StripKeyLast(k) ==
    IF Occurrences(k, ModulePrefix) = {}
    THEN k
    ELSE SubSeq(k, Max(Occurrences(k, ModulePrefix)) + Len(ModulePrefix), Len(k))

\* k.partition('module.')[2]
StripKey(k) == Partition(k, ModulePrefix)[3]

RECURSIVE RewriteFrom(_, _, _)
RewriteFrom(sd, i, acc) ==
    IF i > Len(sd)
    THEN acc
    ELSE RewriteFrom(sd, i + 1, DictSet(acc, StripKey(sd[i][1]), sd[i][2]))

\* {k.partition('module.')[2]: state_dict[k] for k in state_dict.keys()}
RewriteKeys(sd) == RewriteFrom(sd, 1, <<>>)

(* ------------------------------ the model ------------------------------ *)
FSDP == "FullyShardedDataParallel"

LFSDP == "LightningFullShardedDataParallel"

\* unwrap_lightning_module_full_sharded: takes off one FullyShardedDataParallel
\* layer and then one LightningFullShardedDataParallel layer
Unwrap(m) ==
    LET a == IF m # <<>> /\ Head(m) = FSDP THEN Tail(m) ELSE m
    IN  IF a # <<>> /\ Head(a) = LFSDP THEN Tail(a) ELSE a

\* FullShardedPlugin.lightning_module
lightning_module == Unwrap(model)

\* the bare LightningModule is the model without any wrapper layer
IsLightningModule(m) == m = <<>>

WrapDepth(m) == Cardinality({i \in 1..Len(m) : m[i] = FSDP})

\* state_dict() of a wrapped model: the LightningFullShardedDataParallel layer
\* holds the wrapped model as its child `module`, so it prefixes every key with
\* 'module.'; FullyShardedDataParallel returns the keys of what it wraps
RECURSIVE StateDictOf(_, _)
StateDictOf(m, base) ==
    IF m = <<>>
    THEN base
    ELSE LET inner == StateDictOf(Tail(m), base)
         IN  IF Head(m) = LFSDP
             THEN [i \in 1..Len(inner) |-> <<ModulePrefix \o inner[i][1], inner[i][2]>>]
             ELSE inner

(* --------------------------- input domains ----------------------------- *)
OptBool == {"None", "False", "True"}

\* bool(v) for v in None, False, True
Truthy(v) == v = "True"

ArgNames == {"cpu_offload", "flatten_parameters", "reshard_after_forward",
             "fp32_reduce_scatter", "compute_dtype", "bucket_cap_mb", "sync_batchnorm"}

ArgValues == [cpu_offload : BOOLEAN, flatten_parameters : BOOLEAN,
              reshard_after_forward : BOOLEAN, fp32_reduce_scatter : OptBool,
              compute_dtype : {"None", "torch.float16"}, bucket_cap_mb : {0, 25},
              sync_batchnorm : OptBool]

\* defaults of the __init__ signature
Defaults == [cpu_offload |-> TRUE, flatten_parameters |-> FALSE,
             reshard_after_forward |-> FALSE, fp32_reduce_scatter |-> "False",
             compute_dtype |-> "None", bucket_cap_mb |-> 25,
             sync_batchnorm |-> "False"]

\* binding of a call that passes the arguments named in given with the values of a
Bind(given, a) ==
    [cpu_offload |-> IF "cpu_offload" \in given THEN a.cpu_offload ELSE Defaults.cpu_offload,
     flatten_parameters |-> IF "flatten_parameters" \in given THEN a.flatten_parameters
                            ELSE Defaults.flatten_parameters,
     reshard_after_forward |-> IF "reshard_after_forward" \in given THEN a.reshard_after_forward
                               ELSE Defaults.reshard_after_forward,
     fp32_reduce_scatter |-> IF "fp32_reduce_scatter" \in given THEN a.fp32_reduce_scatter
                             ELSE Defaults.fp32_reduce_scatter,
     compute_dtype |-> IF "compute_dtype" \in given THEN a.compute_dtype
                       ELSE Defaults.compute_dtype,
     bucket_cap_mb |-> IF "bucket_cap_mb" \in given THEN a.bucket_cap_mb
                       ELSE Defaults.bucket_cap_mb,
     sync_batchnorm |-> IF "sync_batchnorm" \in given THEN a.sync_batchnorm
                        ELSE Defaults.sync_batchnorm]

Precisions == {"16", "mixed"}

BaseKeys == {<<"w">>, <<"b">>, ModulePrefix \o <<"w">>}

\* state dicts of a LightningModule with up to MaxKeys parameters; the i-th
\* parameter's tensor is i
StateDictsOver(keys) ==
    UNION {{[i \in 1..n |-> <<ks[i], i>>] :
              ks \in {q \in [1..n -> keys] : \A i, j \in 1..n : q[i] = q[j] => i = j}}
           : n \in 0..MaxKeys}

BaseStateDicts == StateDictsOver(BaseKeys)

StaleStateDict == <<<<(<<"o", "l", "d">>), 9>>>>

CheckpointInputs == {<<>>, <<<<"state_dict", StaleStateDict>>, <<"epoch", 3>>>>}

NoAttrs == [a \in {} |-> TRUE]

MsgNotAvailable == "MisconfigurationException: Full Sharded Training is not available. Install the latest FairScale via pip install fairscale -U"

MsgSyncBatchNorm == "MisconfigurationException: Currently sync batch norm is not supported by Full Sharded Training."


(* ------------------------ FullShardedPlugin.__init__ ------------------- *)
\* the checks of __init__ in the opposite order
CtorErrorSyncFirst(available, a) ==
    IF Truthy(a.sync_batchnorm) THEN MsgSyncBatchNorm
    ELSE IF ~available THEN MsgNotAvailable
    ELSE "none"

\* the check of sync_batchnorm left out
CtorErrorNoSyncCheck(available, a) ==
    IF ~available THEN MsgNotAvailable ELSE "none"

\* the two checks of __init__, in order; "none" when it goes on
CtorError(available, a) ==
    IF ~available THEN MsgNotAvailable
    ELSE IF Truthy(a.sync_batchnorm) THEN MsgSyncBatchNorm
    ELSE "none"

\* super().__init__(parallel_devices, num_nodes, cluster_environment, sync_batchnorm=...)
ParentArgs(a) ==
    [parallel_devices |-> "None", num_nodes |-> 1, cluster_environment |-> "None",
     sync_batchnorm |-> a.sync_batchnorm]

\* the attribute assignments of __init__
ConfigOf(a) ==
    [cpu_offload |-> a.cpu_offload,
     flatten_parameters |-> a.flatten_parameters,
     reshard_after_forward |-> a.reshard_after_forward,
     fp32_reduce_scatter |-> a.fp32_reduce_scatter,
     compute_dtype |-> a.compute_dtype,
     bucket_cap_mb |-> a.bucket_cap_mb]

(* ------------------------------ plugin Init ---------------------------- *)
HookIdle ==
    /\ training_state = "IDLE" /\ stream_ok = FALSE /\ mixed_precision = FALSE
    /\ move_grads_to_cpu = FALSE /\ param_dtype = "torch.float32" /\ param_grad = <<>>
    /\ reduced_in = <<>> /\ hook_result = "none" /\ hook_calls = 0

CollateIdle == cs_in = <<>> /\ cs_once = <<>> /\ cs_twice = <<>> /\ cs_pc = "idle"

PluginIdle ==
    /\ fairscale_available = TRUE /\ full_sharded_available = TRUE
    /\ phase = "start" /\ error = "none" /\ last_op = "none"
    /\ ctor_args = <<>> /\ no_args = FALSE /\ parent_args = <<>> /\ config = NoAttrs
    /\ precision = "32" /\ base_state_dict = <<>> /\ model = <<>> /\ fsdp_kwargs = <<>>
    /\ optimizer_setups = 0 /\ model_device = "cpu" /\ checkpoint = <<>> /\ ret = <<>>

Init ==
    /\ fairscale_available \in BOOLEAN
    /\ full_sharded_available \in BOOLEAN
    /\ phase = "start" /\ error = "none" /\ last_op = "none"
    /\ ctor_args = <<>> /\ no_args = FALSE /\ parent_args = <<>> /\ config = NoAttrs
    /\ precision \in Precisions
    /\ base_state_dict \in BaseStateDicts
    /\ model = <<>> /\ fsdp_kwargs = <<>> /\ optimizer_setups = 0
    /\ model_device = "cpu" /\ checkpoint = <<>> /\ ret = <<>>
    /\ HookIdle /\ CollateIdle

(* ------------------------------- actions ------------------------------- *)
\* import of full_sharded.py: the class statement of
\* LightningFullyShardedDataParallel names FullyShardedDataParallel, which is
\* only imported when _FAIRSCALE_AVAILABLE
ImportModule ==
    /\ phase = "start"
    /\ last_op' = "import"
    /\ IF fairscale_available
       THEN phase' = "loaded" /\ error' = "none"
       ELSE phase' = "import_failed" /\ error' = "NameError"
    /\ UNCHANGED <<fairscale_available, full_sharded_available, ctor_args, no_args,
                   parent_args, config, precision, base_state_dict, model, fsdp_kwargs,
                   optimizer_setups, model_device, checkpoint, ret>>
    /\ UNCHANGED <<hookVars, collateVars>>

\* FullShardedPlugin(**kwargs)
Construct ==
    /\ phase = "loaded"
    /\ \E given \in SUBSET ArgNames, values \in ArgValues :
         LET a == Bind(given, values)
             e == CtorError(full_sharded_available, a)
         IN  /\ ctor_args' = <<a>>
             /\ no_args' = (given = {})
             /\ error' = e
             /\ IF e # "none"
                THEN /\ phase' = "ctor_failed"
                     /\ UNCHANGED <<parent_args, config>>
                ELSE /\ phase' = "constructed"
                     /\ parent_args' = <<ParentArgs(a)>>
                     /\ config' = ConfigOf(a)
    /\ last_op' = "__init__"
    /\ UNCHANGED <<fairscale_available, full_sharded_available, precision,
                   base_state_dict, model, fsdp_kwargs, optimizer_setups, model_device,
                   checkpoint, ret>>
    /\ UNCHANGED <<hookVars, collateVars>>

\* keyword arguments with move_grads_to_cpu and mixed_precision gone wrong
FsdpKwargsWrong(cfg, prec) ==
    [cpu_offload |-> cfg.cpu_offload,
     move_grads_to_cpu |-> FALSE,
     flatten_parameters |-> cfg.flatten_parameters,
     mixed_precision |-> (prec = "16"),
     reshard_after_forward |-> cfg.reshard_after_forward,
     fp32_reduce_scatter |-> cfg.fp32_reduce_scatter,
     compute_dtype |-> cfg.compute_dtype,
     bucket_cap_mb |-> cfg.bucket_cap_mb]

\* the keyword arguments of FullyShardedDataParallel(...) in configure_ddp
FsdpKwargs(cfg, prec) ==
    [cpu_offload |-> cfg.cpu_offload,
     move_grads_to_cpu |-> cfg.cpu_offload,
     flatten_parameters |-> cfg.flatten_parameters,
     mixed_precision |-> (prec = "mixed"),
     reshard_after_forward |-> cfg.reshard_after_forward,
     fp32_reduce_scatter |-> cfg.fp32_reduce_scatter,
     compute_dtype |-> cfg.compute_dtype,
     bucket_cap_mb |-> cfg.bucket_cap_mb]

\* a wrapper without the LightningFullShardedDataParallel layer
WrapBare(m) == <<FSDP>> \o m

\* FullyShardedDataParallel(LightningFullShardedDataParallel(self.model), ...)
Wrap(m) == <<FSDP, LFSDP>> \o m

\* configure_ddp that also writes the resolved compute dtype back to the plugin
configure_ddp_resolving_dtype ==
    /\ phase = "constructed"
    /\ last_op' = "configure_ddp"
    /\ IF IsLightningModule(lightning_module)
       THEN /\ model' = Wrap(model)
            /\ fsdp_kwargs' = <<FsdpKwargs(config, precision)>>
            /\ optimizer_setups' = optimizer_setups + 1
            /\ config' = [config EXCEPT !.compute_dtype =
                             IF @ # "None" THEN @
                             ELSE IF precision = "mixed" THEN "torch.float16"
                             ELSE "torch.float32"]
            /\ error' = "none"
       ELSE /\ error' = "AttributeError"
            /\ UNCHANGED <<model, fsdp_kwargs, optimizer_setups, config>>
    /\ UNCHANGED <<fairscale_available, full_sharded_available, phase, ctor_args, no_args,
                   parent_args, precision, base_state_dict, model_device,
                   checkpoint, ret>>
    /\ UNCHANGED <<hookVars, collateVars>>

\* configure_ddp: self.lightning_module.trainer fails with AttributeError when
\* lightning_module is not the LightningModule
configure_ddp ==
    /\ phase = "constructed"
    /\ last_op' = "configure_ddp"
    /\ IF IsLightningModule(lightning_module)
       THEN /\ model' = Wrap(model)
            /\ fsdp_kwargs' = <<FsdpKwargs(config, precision)>>
            /\ optimizer_setups' = optimizer_setups + 1
            /\ error' = "none"
       ELSE /\ error' = "AttributeError"
            /\ UNCHANGED <<model, fsdp_kwargs, optimizer_setups>>
    /\ UNCHANGED <<fairscale_available, full_sharded_available, phase, ctor_args, no_args,
                   parent_args, config, precision, base_state_dict, model_device,
                   checkpoint, ret>>
    /\ UNCHANGED <<hookVars, collateVars>>

\* the test of model_to_device inverted
DelegatesToParentInverted(cfg) == cfg.cpu_offload

\* `if not self.cpu_offload` of model_to_device
DelegatesToParent(cfg) == ~cfg.cpu_offload

\* DDPPlugin.model_to_device: self.model.to(self.root_device)
ParentModelToDevice(dev) == "root_device"

model_to_device ==
    /\ phase = "constructed"
    /\ last_op' = "model_to_device"
    /\ error' = "none"
    /\ model_device' = IF DelegatesToParent(config)
                       THEN ParentModelToDevice(model_device)
                       ELSE model_device
    /\ UNCHANGED <<fairscale_available, full_sharded_available, phase, ctor_args, no_args,
                   parent_args, config, precision, base_state_dict, model, fsdp_kwargs,
                   optimizer_setups, checkpoint, ret>>
    /\ UNCHANGED <<hookVars, collateVars>>

\* the body of collate_state_dict on self.model
Collated == RewriteKeys(StateDictOf(model, base_state_dict))

collate_state_dict ==
    /\ phase = "constructed"
    /\ last_op' = "collate_state_dict"
    /\ error' = "none"
    /\ ret' = Collated
    /\ UNCHANGED <<fairscale_available, full_sharded_available, phase, ctor_args, no_args,
                   parent_args, config, precision, base_state_dict, model, fsdp_kwargs,
                   optimizer_setups, model_device, checkpoint>>
    /\ UNCHANGED <<hookVars, collateVars>>

\* on_save(checkpoint): checkpoint['state_dict'] = self.collate_state_dict()
on_save ==
    /\ phase = "constructed"
    /\ last_op' = "on_save"
    /\ error' = "none"
    /\ \E c \in CheckpointInputs : checkpoint' = DictSet(c, "state_dict", Collated)
    /\ UNCHANGED <<fairscale_available, full_sharded_available, phase, ctor_args, no_args,
                   parent_args, config, precision, base_state_dict, model, fsdp_kwargs,
                   optimizer_setups, model_device, ret>>
    /\ UNCHANGED <<hookVars, collateVars>>

Next ==
    \/ ImportModule
    \/ Construct
    \/ configure_ddp
    \/ model_to_device
    \/ collate_state_dict
    \/ on_save

Spec == Init /\ [][Next]_vars



(* --------- LightningFullyShardedDataParallel._post_reduction_hook ------- *)
TrainingStates == {"IDLE", "FORWARD", "BACKWARD", "SUMMON_FULL_PARAMS"}

Dtypes == {"torch.float16", "torch.float32"}

\* a tensor is its dtype, its device and one element; the element of a
\* float16 tensor is a value float16 can hold (here: an even number)
Representable(v, dtype) == dtype = "torch.float16" => v % 2 = 0

Tensors == {t \in [dtype : Dtypes, device : {"cuda", "cpu"}, val : {2, 3}] :
              Representable(t.val, t.dtype)}

\* the gradient shard the reduce-scatter delivers on the GPU
ReducedGrads == {t \in Tensors : t.device = "cuda"}

\* tensor.to(dtype=...): same device, element rounded to the new dtype
To(t, dtype) ==
    [dtype |-> dtype, device |-> t.device,
     val |-> IF Representable(t.val, dtype) THEN t.val ELSE t.val - 1]

\* the hook with the move of the gradient to the CPU enabled
HookGradWithCpuMove(reduced, mixed, move, pdtype) ==
    LET g == IF mixed THEN To(reduced, pdtype) ELSE reduced
    IN  IF move THEN [g EXCEPT !.device = "cpu"] ELSE g

\* param.grad.data after the assignments of the hook
HookGrad(reduced, mixed, move, pdtype) ==
    IF mixed THEN To(reduced, pdtype) ELSE reduced

InitHook ==
    /\ PluginIdle /\ CollateIdle
    /\ training_state \in TrainingStates
    /\ stream_ok \in BOOLEAN
    /\ mixed_precision \in BOOLEAN
    /\ move_grads_to_cpu \in BOOLEAN
    /\ param_dtype \in Dtypes
    /\ param_grad \in {<<>>} \cup {<<t>> : t \in Tensors}
    /\ reduced_in = <<>> /\ hook_result = "none" /\ hook_calls = 0

post_reduction_hook ==
    /\ hook_calls < MaxHookCalls
    /\ hook_calls' = hook_calls + 1
    /\ \E reduced_grad \in ReducedGrads :
         /\ reduced_in' = <<reduced_grad>>
         /\ IF stream_ok /\ param_grad # <<>> /\ training_state = "BACKWARD"
            THEN /\ param_grad' = <<HookGrad(reduced_grad, mixed_precision,
                                             move_grads_to_cpu, param_dtype)>>
                 /\ hook_result' = "done"
            ELSE /\ hook_result' = "AssertionError"
                 /\ UNCHANGED param_grad
    /\ UNCHANGED <<training_state, stream_ok, mixed_precision, move_grads_to_cpu,
                   param_dtype>>
    /\ UNCHANGED <<pluginVars, collateVars>>

NextHook == post_reduction_hook

SpecHook == InitHook /\ [][NextHook]_vars

(* ------------- the key rewrite applied to its own output --------------- *)
CollateKeys == BaseKeys \cup {<<"s", "u", "b">> \o ModulePrefix \o <<"w">>}

\* the models configure_ddp can build
ReachableModels == {<<>>, Wrap(<<>>), Wrap(Wrap(<<>>))}

CollateInputs == {StateDictOf(m, b) : m \in ReachableModels, b \in StateDictsOver(CollateKeys)}

InitCollate ==
    /\ PluginIdle /\ HookIdle
    /\ cs_in \in CollateInputs
    /\ cs_once = <<>> /\ cs_twice = <<>> /\ cs_pc = "start"

ApplyOnce ==
    /\ cs_pc = "start"
    /\ cs_once' = RewriteKeys(cs_in)
    /\ cs_pc' = "once"
    /\ UNCHANGED <<cs_in, cs_twice>>
    /\ UNCHANGED <<pluginVars, hookVars>>

ApplyAgain ==
    /\ cs_pc = "once"
    /\ cs_twice' = RewriteKeys(cs_once)
    /\ cs_pc' = "twice"
    /\ UNCHANGED <<cs_in, cs_once>>
    /\ UNCHANGED <<pluginVars, hookVars>>

NextCollate ==
    \/ ApplyOnce
    \/ ApplyAgain

SpecCollate == InitCollate /\ [][NextCollate]_vars


(* ============================== properties ============================= *)
Called == ctor_args # <<>>

Constructed == phase = "constructed"

\* C1: whatever the arguments, __init__ without the FairScale full-sharded
\* dependency raises the "Full Sharded Training is not available" error, and
\* does so before DDPPlugin.__init__ has run or any attribute has been set.
C1_UnavailableFailsFirst ==
    (Called /\ ~full_sharded_available) =>
        /\ phase = "ctor_failed"
        /\ error = MsgNotAvailable
        /\ parent_args = <<>>
        /\ DOMAIN config = {}

C1_Witness ==
    /\ Called /\ ~full_sharded_available
    /\ Truthy(ctor_args[1].sync_batchnorm)
    /\ ~ctor_args[1].cpu_offload
    /\ error = MsgNotAvailable

\* C2: __init__ with a truthy sync_batchnorm always raises a
\* MisconfigurationException, and no constructed plugin (nor its parent part)
\* has sync_batchnorm enabled.
C2_SyncBatchNormRejected ==
    /\ (Called /\ Truthy(ctor_args[1].sync_batchnorm)) =>
          /\ phase = "ctor_failed"
          /\ error \in {MsgNotAvailable, MsgSyncBatchNorm}
          /\ parent_args = <<>>
    /\ parent_args # <<>> => ~Truthy(parent_args[1].sync_batchnorm)

C2_Witness ==
    /\ Called /\ full_sharded_available
    /\ Truthy(ctor_args[1].sync_batchnorm)
    /\ phase = "ctor_failed"
    /\ error = MsgSyncBatchNorm

\* C3: applying the key rewrite of collate_state_dict to its own output gives
\* the same mapping (same keys, same values) as applying it once.
C3_RewriteIdempotent ==
    cs_pc = "twice" => Items(cs_twice) = Items(cs_once)

HasModulePrefix(k) ==
    Len(k) >= Len(ModulePrefix) /\ SubSeq(k, 1, Len(ModulePrefix)) = ModulePrefix

WithoutModulePrefix(k) == SubSeq(k, Len(ModulePrefix) + 1, Len(k))

ExactlyStripped(sd, out) ==
    /\ Len(out) = Len(sd)
    /\ Cardinality(Keys(out)) = Cardinality(Keys(sd))
    /\ \A i \in 1..Len(sd) :
          /\ HasModulePrefix(sd[i][1])
          /\ <<WithoutModulePrefix(sd[i][1]), sd[i][2]>> \in Items(out)

CheckpointStateDict == checkpoint[CHOOSE i \in 1..Len(checkpoint) : checkpoint[i][1] = "state_dict"][2]

\* C4: on a wrapped model, collate_state_dict (and the 'state_dict' entry that
\* on_save writes) maps every key of the wrapped model's state dict to that key
\* without its leading 'module.', keeps its tensor, and has one entry per key.
C4_StripsLeadingPrefix ==
    /\ (Constructed /\ last_op = "collate_state_dict" /\ WrapDepth(model) >= 1) =>
          ExactlyStripped(StateDictOf(model, base_state_dict), ret)
    /\ (Constructed /\ last_op = "on_save" /\ WrapDepth(model) >= 1) =>
          /\ "state_dict" \in Keys(checkpoint)
          /\ ExactlyStripped(StateDictOf(model, base_state_dict), CheckpointStateDict)

C4_Witness ==
    /\ Constructed /\ last_op = "on_save" /\ WrapDepth(model) = 1
    /\ Len(base_state_dict) = 2
    /\ ModulePrefix \o <<"w">> \in Keys(base_state_dict)
    /\ "epoch" \in Keys(checkpoint)
    /\ Keys(CheckpointStateDict) = Keys(base_state_dict)

\* C5: the wrapper built by configure_ddp gets the constructor's values
\* unchanged, move_grads_to_cpu equal to cpu_offload, and mixed_precision true
\* exactly when the trainer's precision is "mixed".
C5_WrapperGetsConstructorValues ==
    fsdp_kwargs # <<>> =>
        LET k == fsdp_kwargs[1]
            a == ctor_args[1]
        IN  /\ k.cpu_offload = a.cpu_offload
            /\ k.flatten_parameters = a.flatten_parameters
            /\ k.reshard_after_forward = a.reshard_after_forward
            /\ k.fp32_reduce_scatter = a.fp32_reduce_scatter
            /\ k.compute_dtype = a.compute_dtype
            /\ k.bucket_cap_mb = a.bucket_cap_mb
            /\ k.move_grads_to_cpu = a.cpu_offload
            /\ k.mixed_precision = (precision = "mixed")

C5_Witness ==
    /\ fsdp_kwargs # <<>>
    /\ fsdp_kwargs[1].mixed_precision
    /\ fsdp_kwargs[1].move_grads_to_cpu
    /\ fsdp_kwargs[1].flatten_parameters
    /\ ~fsdp_kwargs[1].reshard_after_forward
    /\ fsdp_kwargs[1].bucket_cap_mb = 0
    /\ fsdp_kwargs[1].compute_dtype = "torch.float16"

\* C6: a plugin constructed without arguments has the defaults the Arguments
\* section of the docstring states: cpu_offload False, flatten_parameters
\* False, reshard_after_forward False, fp32_reduce_scatter None, bucket_cap_mb 25.
C6_DocumentedDefaults ==
    (Constructed /\ no_args) =>
        /\ config.cpu_offload = FALSE
        /\ config.flatten_parameters = FALSE
        /\ config.reshard_after_forward = FALSE
        /\ config.fp32_reduce_scatter = "None"
        /\ config.bucket_cap_mb = 25

\* C7: the configuration attributes of a constructed plugin hold the
\* constructor's values after any sequence of configure_ddp, model_to_device,
\* on_save and collate_state_dict calls.
C7_ConfigSetOnce ==
    Constructed =>
        /\ DOMAIN config = {"cpu_offload", "flatten_parameters", "reshard_after_forward",
                            "fp32_reduce_scatter", "compute_dtype", "bucket_cap_mb"}
        /\ config.cpu_offload = ctor_args[1].cpu_offload
        /\ config.flatten_parameters = ctor_args[1].flatten_parameters
        /\ config.reshard_after_forward = ctor_args[1].reshard_after_forward
        /\ config.fp32_reduce_scatter = ctor_args[1].fp32_reduce_scatter
        /\ config.compute_dtype = ctor_args[1].compute_dtype
        /\ config.bucket_cap_mb = ctor_args[1].bucket_cap_mb

C7_Witness ==
    /\ Constructed
    /\ WrapDepth(model) = 1
    /\ model_device = "root_device"
    /\ ret # <<>>
    /\ checkpoint # <<>>
    /\ last_op = "on_save"
    /\ config.compute_dtype = "None"
    /\ config.flatten_parameters

\* C8 as stated: after any sequence of operations the model carries at most
\* one FullyShardedDataParallel layer around one
\* LightningFullShardedDataParallel layer around the original module, and
\* lightning_module resolves to the original module.
C8_BuiltOnce ==
    Constructed =>
        /\ model \in {<<>>, <<FSDP, LFSDP>>}
        /\ IsLightningModule(lightning_module)

WrapperPairs(n) == [i \in 1..(2 * n) |-> IF i % 2 = 1 THEN FSDP ELSE LFSDP]

\* C8 amended: the model carries one FullyShardedDataParallel layer around one
\* LightningFullShardedDataParallel layer per completed configure_ddp call and
\* no other operation changes it; up to the first completed call
\* lightning_module resolves to the original module.
C8_OnePairPerConfigure ==
    Constructed =>
        /\ model = WrapperPairs(optimizer_setups)
        /\ optimizer_setups <= 1 => IsLightningModule(lightning_module)

C8_Witness ==
    /\ Constructed
    /\ optimizer_setups = 1
    /\ model = <<FSDP, LFSDP>>
    /\ last_op = "on_save"
    /\ IsLightningModule(lightning_module)

\* C9: model_to_device hands over to the parent's placement exactly when
\* cpu_offload is false; with cpu_offload true the call changes neither the
\* model's placement nor anything else of the plugin.
C9_ModelToDevice ==
    [][last_op' = "model_to_device" =>
          /\ UNCHANGED <<fairscale_available, full_sharded_available, phase, ctor_args,
                         no_args, parent_args, config, precision, base_state_dict, model,
                         fsdp_kwargs, optimizer_setups, checkpoint, ret>>
          /\ IF config.cpu_offload
             THEN model_device' = model_device
             ELSE model_device' = "root_device"]_vars

C9_Witness ==
    /\ Constructed
    /\ last_op = "model_to_device"
    /\ config.cpu_offload
    /\ model_device = "cpu"
    /\ WrapDepth(model) = 1

\* C10: the hook completes only in the BACKWARD state with a gradient present,
\* otherwise it fails an assertion and leaves the gradient alone; on completion
\* the gradient is the reduced gradient, cast to the parameter's dtype under
\* mixed precision and untouched otherwise, and still on the reduced
\* gradient's device.
C10_PostReductionHook ==
    [][hook_calls' # hook_calls =>
          /\ hook_result' \in {"done", "AssertionError"}
          /\ hook_result' = "done" =>
                /\ training_state = "BACKWARD"
                /\ param_grad # <<>>
                /\ param_grad'[1].device = reduced_in'[1].device
                /\ mixed_precision => param_grad'[1] = To(reduced_in'[1], param_dtype)
                /\ ~mixed_precision => param_grad'[1] = reduced_in'[1]
          /\ hook_result' = "AssertionError" => param_grad' = param_grad
          /\ (training_state # "BACKWARD" \/ param_grad = <<>>) =>
                hook_result' = "AssertionError"]_vars

C10_Witness ==
    /\ hook_result = "done"
    /\ mixed_precision
    /\ move_grads_to_cpu
    /\ reduced_in[1].dtype = "torch.float16"
    /\ param_grad[1].dtype = "torch.float32"
    /\ param_grad[1].device = "cuda"

====
